---- MODULE Spec2Model ----
(***************************************************************************)
(* Asynchronous event delivery of autolemetry-go: subscribers.Queue, its   *)
(* producers (Track), its single consumer goroutine (start / deliver /     *)
(* resetIfNeeded) and Shutdown.  Durations and instants are counted in     *)
(* units of 100ms; instant 0 is Go's zero time.Time.  The generic          *)
(* circuitbreaker.CircuitBreaker of the trace path is modelled beside it,  *)
(* with its own specification.                                             *)
(***************************************************************************)
EXTENDS Integers, Sequences, FiniteSets, TLC

\* ---------------------------------------------------------------- bounds
MaxEvents == 2          \* Track calls made in one run
MaxTime == 3            \* last instant of the clock
QueueSizeCfg == 1       \* cfg.QueueSize passed to NewQueueWithConfig
FlushIntervalCfg == 2   \* cfg.FlushInterval passed to NewQueueWithConfig
BackoffMinCfg == 2      \* a cfg.BackoffMin below cfg.BackoffMax
BackoffMaxCfg == 3      \* a cfg.BackoffMax
MaxCalls == 6           \* calls made on the circuit breaker in one run
FailureThresholdCfg == 2    \* a failureThreshold given to NewCircuitBreaker
SuccessThresholdCfg == 2    \* a successThreshold given to NewCircuitBreaker
TimeoutCfg == 1             \* the timeout given to NewCircuitBreaker
OneToken == 2           \* parts of a token the bucket's arithmetic resolves
RateCfg == 1            \* a rate given to NewTokenBucket, in parts per instant
BurstCfg == 2           \* a burst given to NewTokenBucket, in tokens
CircuitThresholdCfg == 2    \* a cfg.CircuitThreshold above 1

\* ------------------------------------------------ defaults of the program
DefaultQueueSize == 1000
DefaultFlushInterval == 10
DefaultCircuitThreshold == 5
DefaultBackoffMin == 1
DefaultBackoffMax == 50
DefaultCircuitReset == 100

ZeroTime == 0

\* The registered subscribers, in registration order, and the callers.
Subs == {1, 2}
NumSubs == Cardinality(Subs)
Callers == {1, 2}

\* Concrete Go types of the registered subscribers: two different adapters,
\* or two adapters of one type (two webhooks with different URLs).
SubTypeChoices ==
    { <<"*subscribers.WebhookSubscriber", "*subscribers.PostHogSubscriber">>,
      <<"*subscribers.WebhookSubscriber", "*subscribers.WebhookSubscriber">> }

\* cfg values handed to NewQueueWithConfig (0 = unset, the default applies):
\* the default minimum backoff, one below the maximum, and one above it.
ConfigChoices ==
    { [QueueSize |-> QueueSizeCfg, FlushInterval |-> FlushIntervalCfg,
       CircuitThreshold |-> 0, BackoffMin |-> bmin, BackoffMax |-> BackoffMaxCfg,
       CircuitReset |-> 0] :
        bmin \in {0, BackoffMinCfg, BackoffMaxCfg + 1} }

\* A queue with room for every event of a run and a sweep on every clock
\* step: the flush interval is the time unit, the circuit reset interval is
\* the default.
BurstConfigChoices ==
    { [QueueSize |-> QueueSizeCfg + 1, FlushInterval |-> 1,
       CircuitThreshold |-> 0, BackoffMin |-> 0, BackoffMax |-> BackoffMaxCfg,
       CircuitReset |-> 0] }

VARIABLES
    now,            \* the wall clock, time.Now()
    events,         \* q.events: the buffered channel's content
    chanClosed,     \* q.events has been closed
    closed,         \* q.closed
    subType,        \* the concrete type of each element of q.subscribers
    trackIn,        \* the context, name and properties the producers call Track with
    queueSize,      \* cap(q.events)
    flushInterval,  \* period of q.flushTick
    cbThreshold,    \* q.cbThreshold
    backoffMin,     \* q.backoffMin
    backoffMax,     \* q.backoffMax
    cbReset,        \* q.cbReset
    workerErrs,     \* q.workerErrs: map id -> int
    nextAllowed,    \* q.nextAllowed: map id -> time.Time
    backoff,        \* q.backoff: map id -> time.Duration
    tickReady,      \* a tick is buffered in q.flushTick.C
    tickStopped,    \* q.flushTick.Stop() was called
    cpc,            \* consumer goroutine: "select", "deliver", "sending", "exited"
    cur,            \* the event deliver() is working on
    idx,            \* index of the subscriber deliver() is at
    attemptNow,     \* deliver()'s local `now` of the current iteration
    spc,            \* per Shutdown caller: position in Shutdown
    closeIdx,       \* per Shutdown caller: next subscriber to Close
    panicked,       \* a goroutine panicked (the process is gone)
    nextId,         \* sequence number of the next Track call
    \* observations of the run
    accepted,       \* events put into the channel, in order
    dropped,        \* events dropped by Track
    sent,           \* per subscriber: the events its Send was invoked with
    sendOk,         \* per subscriber: the set of results its Send returned
    skipped,        \* <<event id, subscriber>> pairs skipped for backoff
    closeCount,     \* per subscriber: invocations of Close
    chanCloses,     \* number of close(q.events) executed
    consecFails,    \* per subscriber: failed Sends since its last success / sweep
    lastWait,       \* per subscriber: nextAllowed - attempt instant of the last failure
    lastFailAt,     \* per subscriber: instant its last Send returned, if it failed
    shutSnap,       \* per Shutdown caller: events accepted before the call
    shutResult,     \* per Shutdown caller: what Shutdown returned
    closeErrs,      \* subscribers whose Close returned an error
    callerProps,    \* the caller's own properties map, as Track leaves it
    sweptSubs,      \* subscribers in backoff at the last sweep, until the next
                    \* event has been delivered
    lastSweepAt,    \* instant of the last sweep that reset a health record
    circuitLogs,    \* subscribers deliver() printed "circuit open" for
    twin,           \* a second queue that differs in cbThreshold only and is
                    \* given the same events, Send outcomes and instants:
                    \* its cbThreshold, health maps, Send attempts and prints
    \* circuitbreaker.CircuitBreaker
    state,          \* cb.state
    failureCount,   \* cb.failureCount
    successCount,   \* cb.successCount
    failureThreshold,   \* cb.failureThreshold
    successThreshold,   \* cb.successThreshold
    timeout,        \* cb.timeout
    lastStateChange,    \* cb.lastStateChange
    apc,            \* per thread: position in Allow
    aState,         \* per thread: Allow's local `state`
    aLastChange,    \* per thread: Allow's local `lastChange`
    allowRet,       \* per thread: what its last Allow returned
    calls,          \* calls made on the breaker so far
    failRun,        \* RecordFailure calls since the last RecordSuccess call
    succRun,        \* RecordSuccess calls made in HalfOpen since the breaker
                    \* became HalfOpen or RecordFailure was last called
    lastRecord,     \* the last RecordSuccess / RecordFailure call, the
                    \* state it found, and (clean) whether the breaker was
                    \* opened since it was last Closed and has had no
                    \* RecordSuccess call while Open since it last opened
    \* ratelimit.TokenBucket
    rate,           \* tb.rate, in parts of a token per instant
    burst,          \* tb.burst, in tokens
    tokens,         \* tb.tokens, in parts of a token
    lastUpdate,     \* tb.lastUpdate
    mu,             \* tb.mu: the thread holding it, 0 when unlocked
    tpc,            \* per thread: position in TokenBucket.Allow
    allowCalls,     \* Allow calls made on the bucket so far
    epochTokens,    \* tb.tokens as refilled by the first Allow that read the
                    \* instant lastUpdate (the construction for the first)
    epochFull,      \* that Allow measured elapsed * rate >= burst, or the
                    \* bucket was constructed at that instant
    epochRets,      \* what the Allow calls returned since, in order
    overlap,        \* an Allow call was made since while another was running
    rlRet,          \* per thread: what its last TokenBucket.Allow returned
    \* Start and the package globals it reads
    globalRateLimiter,      \* the bucket is installed (nil when FALSE)
    globalCircuitBreaker,   \* the breaker is installed (nil when FALSE)
    stpc,           \* per thread: position in Start
    startRet        \* per thread: what its last Start returned

vars == << now, events, chanClosed, closed, subType, trackIn, queueSize, flushInterval,
           cbThreshold, backoffMin, backoffMax, cbReset, workerErrs,
           nextAllowed, backoff, tickReady, tickStopped, cpc, cur, idx,
           attemptNow, spc, closeIdx, panicked, nextId, accepted, dropped,
           sent, sendOk, skipped, closeCount, chanCloses, consecFails,
           lastWait, lastFailAt, shutSnap, shutResult, closeErrs,
           callerProps, sweptSubs, lastSweepAt, circuitLogs, twin, state, failureCount,
           successCount, failureThreshold, successThreshold, timeout,
           lastStateChange, apc, aState, aLastChange, allowRet, calls,
           failRun, succRun, lastRecord, rate, burst, tokens, lastUpdate,
           mu, tpc, allowCalls, epochTokens, epochFull, epochRets, overlap,
           rlRet, globalRateLimiter, globalCircuitBreaker, stpc, startRet >>

configVars == << subType, trackIn, queueSize, flushInterval, cbThreshold, backoffMin,
                 backoffMax, cbReset >>
healthVars == << workerErrs, nextAllowed, backoff >>
consumerVars == << cpc, cur, idx, attemptNow >>
shutdownVars == << spc, closeIdx, closeCount, chanCloses, shutSnap, shutResult,
                  closeErrs >>
callerVars == << callerProps >>
sweepVars == << sweptSubs, lastSweepAt >>
obsVars == << sent, sendOk, skipped, consecFails, lastWait, lastFailAt,
             circuitLogs, twin >>
breakerVars == << state, failureCount, successCount, failureThreshold,
                 successThreshold, timeout, lastStateChange, apc, aState,
                 aLastChange, allowRet, calls, failRun, succRun, lastRecord >>
bucketVars == << rate, burst, tokens, lastUpdate, mu, tpc, allowCalls,
                epochTokens, epochFull, epochRets, overlap, rlRet >>
startVars == << globalRateLimiter, globalCircuitBreaker, stpc, startRet >>
\* everything of the queue but the clock
queueVars == << events, chanClosed, closed, configVars, callerVars, sweepVars,
               healthVars, tickReady, tickStopped, consumerVars, shutdownVars,
               panicked, nextId, accepted, dropped, obsVars >>

\* ------------------------------------------------------------- helpers
Min(a, b) == IF a < b THEN a ELSE b

minDuration(a, b) == IF a < b THEN a ELSE b

\* A Go map read: the zero value when the key is absent.
MapGet(m, k, zero) == IF k \in DOMAIN m THEN m[k] ELSE zero

\* A Go map write.
MapPut(m, k, v) == [x \in DOMAIN m \cup {k} |-> IF x = k THEN v ELSE m[x]]

\* id := fmt.Sprintf("%T", sub)
SubID(s) == subType[s]

OrDefault(v, d) == IF v <= 0 THEN d ELSE v

\* the fields of q that deliver() and resetIfNeeded() read and write
QueueHealth ==
    [cbThreshold |-> cbThreshold, workerErrs |-> workerErrs,
     nextAllowed |-> nextAllowed, backoff |-> backoff]

\* a queue just built with circuit threshold th
NewTwin(th) ==
    [cbThreshold |-> th, workerErrs |-> <<>>, nextAllowed |-> <<>>,
     backoff |-> <<>>, sent |-> [s \in Subs |-> <<>>], logs |-> {},
     sending |-> FALSE]

NoEvent == [id |-> 0, name |-> "", properties |-> <<>>, operation |-> ""]

\* ------------------------------------------------------- Track's inputs
HexDigits == << "0", "1", "2", "3", "4", "5", "6", "7",
               "8", "9", "a", "b", "c", "d", "e", "f" >>

HexDigit(n) == HexDigits[n + 1]

\* fmt.Sprintf("%02x", b) for one byte
HexByte(b) == HexDigit(b \div 16) \o HexDigit(b % 16)

\* hex.EncodeToString(bs), and fmt's %x of the bytes of a string
RECURSIVE HexBytes(_)
HexBytes(bs) == IF bs = <<>> THEN "" ELSE HexByte(Head(bs)) \o HexBytes(Tail(bs))

\* The characters of hex.EncodeToString(bs) as ASCII codes: the bytes of the
\* string that TraceID.String() / SpanID.String() returns.
HexStringBytes(bs) ==
    [ i \in 1..(2 * Len(bs)) |->
        LET b == bs[(i + 1) \div 2]
            d == IF i % 2 = 1 THEN b \div 16 ELSE b % 16
        IN  IF d < 10 THEN 48 + d ELSE 87 + d ]

RECURSIVE Zeros(_)
Zeros(n) == IF n <= 0 THEN "" ELSE "0" \o Zeros(n - 1)

\* fmt.Sprintf("%0<width>x", id) for an id with a String() method: fmt calls
\* String() for the verb x and formats the resulting string in hexadecimal,
\* two digits per character, padded with zeros up to width.
SprintfHexStringer(width, bs) ==
    LET str == HexStringBytes(bs)
    IN  Zeros(width - 2 * Len(str)) \o HexBytes(str)

TraceIDBytes == <<113, 48, 187, 109, 91, 180, 239, 64, 1, 2, 3, 4, 5, 6, 7, 8>>
SpanIDBytes == <<0, 240, 103, 170, 11, 169, 2, 183>>

\* props["trace_id"] and props["span_id"] for the ids of the span, each
\* formatted once
TraceIDFormatted == [bs \in {TraceIDBytes} |-> SprintfHexStringer(32, bs)]
SpanIDFormatted == [bs \in {SpanIDBytes} |-> SprintfHexStringer(16, bs)]

\* What Track is called with: no span in the context, or a valid recording
\* span of an operation started with Start.
TrackInputs ==
    { [name |-> "test_event", properties |-> [key |-> "value"],
       recording |-> FALSE, valid |-> FALSE, traceID |-> <<>>, spanID |-> <<>>,
       opName |-> ""],
      [name |-> "order.completed", properties |-> [amount |-> "42"],
       recording |-> TRUE, valid |-> TRUE, traceID |-> TraceIDBytes,
       spanID |-> SpanIDBytes, opName |-> "test-operation"] }

\* Property maps a caller may pass: plain entries, entries under the keys
\* the enrichment uses, and the empty (or nil) map.
CallerPropChoices ==
    { [key |-> "value"],
      [key |-> "value", trace_id |-> "caller"],
      ("operation.name" :> "caller") @@ [span_id |-> "caller"],
      [k \in {} |-> ""] }

\* Every combination of caller map, span in the context (recording or not,
\* valid span context or not) and ambient operation name.
EnrichInputs ==
    { [name |-> "test_event", properties |-> p,
       recording |-> r, valid |-> v,
       traceID |-> IF v THEN TraceIDBytes ELSE <<>>,
       spanID |-> IF v THEN SpanIDBytes ELSE <<>>,
       opName |-> o] :
        p \in CallerPropChoices, r \in BOOLEAN, v \in BOOLEAN,
        o \in {"", "test-operation"} }

\* the keys Track's enrichment assigns in props
EnrichmentKeys(in) ==
    (IF in.recording /\ in.valid THEN {"trace_id", "span_id"} ELSE {})
        \cup (IF in.opName # "" THEN {"operation.name"} ELSE {})

\* props of Track after the copy and the enrichment
EnrichedProps(in) ==
    LET copy == in.properties
        withSpan == IF in.recording /\ in.valid
                    THEN [trace_id |-> TraceIDFormatted[in.traceID],
                          span_id |-> SpanIDFormatted[in.spanID]] @@ copy
                    ELSE copy
    IN  IF in.opName # ""
        THEN ("operation.name" :> in.opName) @@ withSpan
        ELSE withSpan

QueuedEvent(id, in) ==
    [id |-> id, name |-> in.name, properties |-> EnrichedProps(in),
     operation |-> in.opName]

\* ------------------------------------------------------ circuit breaker
StateClosed == "closed"
StateOpen == "open"
StateHalfOpen == "half-open"

Threads == {1, 2}

\* NewCircuitBreaker(failureThreshold, successThreshold, timeout), no call
\* made on it yet
BreakerInit(fts, sts, tos) ==
    /\ state = StateClosed
    /\ failureCount = 0
    /\ successCount = 0
    /\ failureThreshold \in fts
    /\ successThreshold \in sts
    /\ timeout \in tos
    /\ lastStateChange = now
    /\ apc = [t \in Threads |-> "idle"]
    /\ aState = [t \in Threads |-> StateClosed]
    /\ aLastChange = [t \in Threads |-> ZeroTime]
    /\ allowRet = [t \in Threads |-> "none"]
    /\ calls = 0
    /\ failRun = 0
    /\ succRun = 0
    /\ lastRecord = [op |-> "none", from |-> StateClosed, clean |-> FALSE]

\* the breaker of the tests, which the queue never touches
IdleBreaker ==
    BreakerInit({FailureThresholdCfg + 1}, {SuccessThresholdCfg}, {TimeoutCfg})

\* --------------------------------------------------------- token bucket
\* NewTokenBucket(rate, burst), no call made on it yet
NewTokenBucket(rates, bursts) ==
    /\ rate \in rates
    /\ burst \in bursts
    /\ tokens = burst * OneToken
    /\ lastUpdate = now
    /\ mu = 0
    /\ tpc = [t \in Threads |-> "idle"]
    /\ allowCalls = 0
    /\ epochTokens = burst * OneToken
    /\ epochFull = TRUE
    /\ epochRets = <<>>
    /\ overlap = FALSE
    /\ rlRet = [t \in Threads |-> "none"]

\* a bucket nobody calls
IdleBucket == NewTokenBucket({RateCfg}, {BurstCfg})

\* ---------------------------------------------------------------- Start
\* Init with cfg.RateLimiter and cfg.CircuitBreaker nil or not; no Start yet
StartInit(rls, cbs) ==
    /\ globalRateLimiter \in rls
    /\ globalCircuitBreaker \in cbs
    /\ stpc = [t \in Threads |-> "idle"]
    /\ startRet = [t \in Threads |-> "none"]

\* nothing installed and Start never called
NoStart == StartInit({FALSE}, {FALSE})

\* ---------------------------------------------------------------- Init
\* NewQueueWithConfig: the defaults, the empty maps, the ticker, and the
\* consumer goroutine waiting in its select.
QueueInit(cfgs, types, inputs) ==
    /\ now = 1
    /\ events = <<>>
    /\ chanClosed = FALSE
    /\ closed = FALSE
    /\ subType \in types
    /\ trackIn \in inputs
    /\ \E cfg \in cfgs :
        /\ queueSize = OrDefault(cfg.QueueSize, DefaultQueueSize)
        /\ flushInterval = OrDefault(cfg.FlushInterval, DefaultFlushInterval)
        /\ cbThreshold = OrDefault(cfg.CircuitThreshold, DefaultCircuitThreshold)
        /\ backoffMin = OrDefault(cfg.BackoffMin, DefaultBackoffMin)
        /\ backoffMax = OrDefault(cfg.BackoffMax, DefaultBackoffMax)
        /\ cbReset = OrDefault(cfg.CircuitReset, DefaultCircuitReset)
    /\ workerErrs = <<>>
    /\ nextAllowed = <<>>
    /\ backoff = <<>>
    /\ tickReady = FALSE
    /\ tickStopped = FALSE
    /\ cpc = "select"
    /\ cur = NoEvent
    /\ idx = 0
    /\ attemptNow = ZeroTime
    /\ spc = [c \in Callers |-> "idle"]
    /\ closeIdx = [c \in Callers |-> 0]
    /\ panicked = FALSE
    /\ nextId = 1
    /\ accepted = <<>>
    /\ dropped = {}
    /\ sent = [s \in Subs |-> <<>>]
    /\ sendOk = [s \in Subs |-> {}]
    /\ skipped = {}
    /\ closeCount = [s \in Subs |-> 0]
    /\ chanCloses = 0
    /\ consecFails = [s \in Subs |-> 0]
    /\ lastWait = [s \in Subs |-> 0]
    /\ lastFailAt = [s \in Subs |-> ZeroTime]
    /\ shutSnap = [c \in Callers |-> {}]
    /\ shutResult = [c \in Callers |-> "none"]
    /\ closeErrs = {}
    /\ callerProps = trackIn.properties
    /\ sweptSubs = {}
    /\ lastSweepAt = ZeroTime
    /\ circuitLogs = {}
    /\ \E cfg \in cfgs :
        twin = NewTwin(OrDefault(cfg.CircuitThreshold, DefaultCircuitThreshold))

Init ==
    /\ QueueInit(ConfigChoices, SubTypeChoices, TrackInputs)
    /\ IdleBreaker
    /\ IdleBucket
    /\ NoStart

\* ---------------------------------------------------------------- clock
\* Time passes; the ticker puts a tick into its one-slot channel every
\* flushInterval unless it was stopped (a tick already waiting is kept).
Tick ==
    /\ ~panicked
    /\ now < MaxTime
    /\ now' = now + 1
    /\ tickReady' = (tickReady \/ (~tickStopped /\ (now' - 1) % flushInterval = 0))
    /\ UNCHANGED << events, chanClosed, closed, configVars, breakerVars, bucketVars, startVars, callerVars, sweepVars, healthVars,
                    tickStopped, consumerVars, shutdownVars, panicked, nextId,
                    accepted, dropped, obsVars >>

\* ---------------------------------------------------------------- Track
\* The select of Track: the send panics on a closed channel, succeeds when
\* the buffer has room, and otherwise the default branch drops the event.
TrackSelectBlocking(ev) ==
    \* a plain channel send instead of the select with a default branch
    /\ ~chanClosed
    /\ Len(events) < queueSize
    /\ events' = Append(events, ev)
    /\ accepted' = Append(accepted, ev)
    /\ UNCHANGED << panicked, dropped >>

TrackSelectDropsEarly(ev) ==
    \* the default branch taken while one slot of the buffer is still free
    IF chanClosed
    THEN /\ panicked' = TRUE
         /\ UNCHANGED << events, accepted, dropped >>
    ELSE IF Len(events) + 1 < queueSize
    THEN /\ events' = Append(events, ev)
         /\ accepted' = Append(accepted, ev)
         /\ UNCHANGED << panicked, dropped >>
    ELSE /\ dropped' = dropped \cup {ev.id}
         /\ UNCHANGED << events, accepted, panicked >>

TrackSelect(ev) ==
    IF chanClosed
    THEN /\ panicked' = TRUE
         /\ UNCHANGED << events, accepted, dropped >>
    ELSE IF Len(events) < queueSize
    THEN /\ events' = Append(events, ev)
         /\ accepted' = Append(accepted, ev)
         /\ UNCHANGED << panicked, dropped >>
    ELSE /\ dropped' = dropped \cup {ev.id}
         /\ UNCHANGED << events, accepted, panicked >>

CallerPropsAliased(in) ==
    \* props := properties: the enrichment writes into the caller's map
    EnrichedProps(in)

\* The caller's map after Track: Track ranges over it to fill the fresh map
\* props and writes to props only.
CallerPropsAfterTrack(in) == callerProps

Track(in) ==
    /\ ~panicked
    /\ nextId <= MaxEvents
    /\ nextId' = nextId + 1
    /\ callerProps' = CallerPropsAfterTrack(in)
    /\ TrackSelect(QueuedEvent(nextId, in))
    /\ UNCHANGED << now, chanClosed, closed, configVars, breakerVars, bucketVars, startVars, sweepVars,
                    healthVars, tickReady, tickStopped, consumerVars,
                    shutdownVars, obsVars >>

\* ------------------------------------------------------------- consumer
\* deliver() on the fields q of a queue: `continue` before the Send to the
\* subscriber with key id, at instant t
deliverSkipsOpenCircuit(q, id, t) ==
    \* a gate that also holds back a subscriber at or above the threshold
    LET next == MapGet(q.nextAllowed, id, ZeroTime)
    IN  \/ next # ZeroTime /\ t < next
        \/ MapGet(q.workerErrs, id, 0) >= q.cbThreshold

\* if !next.IsZero() && now.Before(next) { continue }
deliverSkips(q, id, t) ==
    LET next == MapGet(q.nextAllowed, id, ZeroTime)
    IN  next # ZeroTime /\ t < next

\* the fields after `if err != nil { ... }` for a Send attempted at t
afterFailure(q, id, t) ==
    LET bo0 == MapGet(q.backoff, id, 0)
        bo1 == IF bo0 = 0 THEN backoffMin ELSE bo0
        bo  == IF bo1 > backoffMax THEN backoffMax ELSE bo1
    IN  [q EXCEPT !.workerErrs = MapPut(q.workerErrs, id, MapGet(q.workerErrs, id, 0) + 1),
                  !.nextAllowed = MapPut(q.nextAllowed, id, t + bo),
                  !.backoff = MapPut(q.backoff, id, minDuration(bo * 2, backoffMax))]

\* if errCount >= q.cbThreshold, on the fields after the failure: the
\* "circuit open" message is printed, and the loop continues either way
circuitOpen(q, id) == MapGet(q.workerErrs, id, 0) >= q.cbThreshold

\* the fields after `if err == nil { ... }`
afterSuccess(q, id) ==
    [q EXCEPT !.workerErrs = MapPut(q.workerErrs, id, 0),
              !.backoff = MapPut(q.backoff, id, backoffMin),
              !.nextAllowed = MapPut(q.nextAllowed, id, ZeroTime)]

\* the fields after the loop of resetIfNeeded
afterSweep(q) ==
    [q EXCEPT !.workerErrs = [id \in DOMAIN q.workerErrs |-> 0],
              !.nextAllowed = [id \in DOMAIN q.nextAllowed \cup DOMAIN q.workerErrs |->
                                 IF id \in DOMAIN q.workerErrs THEN ZeroTime
                                 ELSE q.nextAllowed[id]],
              !.backoff = [id \in DOMAIN q.backoff \cup DOMAIN q.workerErrs |->
                                 IF id \in DOMAIN q.workerErrs THEN backoffMin
                                 ELSE q.backoff[id]]]

\* the second queue at the same loop iteration of deliver(), same instant
TwinAttempt(s, ev, t) ==
    IF deliverSkips(twin, SubID(s), t)
    THEN [twin EXCEPT !.sending = FALSE]
    ELSE [twin EXCEPT !.sent[s] = Append(@, ev.id), !.sending = TRUE]

\* the second queue when its Send returns, with the same outcome
TwinReturn(ok, s, t) ==
    IF ~twin.sending THEN twin
    ELSE IF ok THEN [afterSuccess(twin, SubID(s)) EXCEPT !.sending = FALSE]
    ELSE LET q == afterFailure(twin, SubID(s), t)
         IN  [q EXCEPT !.sending = FALSE,
                       !.logs = IF circuitOpen(q, SubID(s)) THEN @ \cup {s} ELSE @]

\* resetIfNeeded: every id that has an entry in workerErrs is reset.
resetIfNeeded ==
    IF cbReset <= 0
    THEN UNCHANGED << healthVars, consecFails, lastWait, sweepVars, twin >>
    ELSE /\ workerErrs' = afterSweep(QueueHealth).workerErrs
         /\ nextAllowed' = afterSweep(QueueHealth).nextAllowed
         /\ backoff' = afterSweep(QueueHealth).backoff
         /\ twin' = afterSweep(twin)
         /\ consecFails' = [s \in Subs |->
                              IF SubID(s) \in DOMAIN workerErrs THEN 0
                              ELSE consecFails[s]]
         /\ lastWait' = [s \in Subs |->
                              IF SubID(s) \in DOMAIN workerErrs THEN 0
                              ELSE lastWait[s]]
         /\ sweptSubs' = { s \in Subs :
                              LET next == MapGet(nextAllowed, SubID(s), ZeroTime)
                              IN  next # ZeroTime /\ now < next }
         /\ lastSweepAt' = IF DOMAIN workerErrs # {} THEN now ELSE lastSweepAt

NextSubscriberStay ==
    \* the loop does not advance: the same subscriber is attempted again
    /\ attemptNow' = ZeroTime
    /\ sweptSubs' = sweptSubs
    /\ idx' = idx
    /\ cpc' = "deliver"
    /\ cur' = cur

\* deliver() moves on to the next subscriber, or returns to the select.
NextSubscriber ==
    /\ attemptNow' = ZeroTime
    /\ sweptSubs' = IF idx < NumSubs THEN sweptSubs ELSE {}
    /\ IF idx < NumSubs
       THEN /\ idx' = idx + 1
            /\ cpc' = "deliver"
            /\ cur' = cur
       ELSE /\ idx' = 0
            /\ cpc' = "select"
            /\ cur' = NoEvent

ConsumerRecvFromLast ==
    \* deliver() starting its loop at the last registered subscriber
    /\ ~panicked
    /\ cpc = "select"
    /\ events # <<>>
    /\ cur' = Head(events)
    /\ events' = Tail(events)
    /\ idx' = NumSubs
    /\ cpc' = "deliver"
    /\ UNCHANGED << now, chanClosed, closed, configVars, breakerVars, bucketVars, startVars, callerVars, sweepVars, healthVars, tickReady,
                    tickStopped, attemptNow, shutdownVars, panicked, nextId,
                    accepted, dropped, obsVars >>

ConsumerRecvNewest ==
    \* the receive taking the most recently buffered event
    /\ ~panicked
    /\ cpc = "select"
    /\ events # <<>>
    /\ cur' = events[Len(events)]
    /\ events' = SubSeq(events, 1, Len(events) - 1)
    /\ idx' = 1
    /\ cpc' = "deliver"
    /\ UNCHANGED << now, chanClosed, closed, configVars, breakerVars, bucketVars, startVars, callerVars, sweepVars, healthVars, tickReady,
                    tickStopped, attemptNow, shutdownVars, panicked, nextId,
                    accepted, dropped, obsVars >>

\* case event, ok := <-q.events with an event in the buffer
ConsumerRecv ==
    /\ ~panicked
    /\ cpc = "select"
    /\ events # <<>>
    /\ cur' = Head(events)
    /\ events' = Tail(events)
    /\ idx' = 1
    /\ cpc' = "deliver"
    /\ UNCHANGED << now, chanClosed, closed, configVars, breakerVars, bucketVars, startVars, callerVars, sweepVars, healthVars, tickReady,
                    tickStopped, attemptNow, shutdownVars, panicked, nextId,
                    accepted, dropped, obsVars >>

\* case event, ok := <-q.events with ok = false: the goroutine returns
ConsumerExit ==
    /\ ~panicked
    /\ cpc = "select"
    /\ events = <<>>
    /\ chanClosed
    /\ cpc' = "exited"
    /\ UNCHANGED << now, events, chanClosed, closed, configVars, breakerVars, bucketVars, startVars, callerVars, sweepVars, healthVars,
                    tickReady, tickStopped, cur, idx, attemptNow, shutdownVars,
                    panicked, nextId, accepted, dropped, obsVars >>

ConsumerTickReturns ==
    \* the ticker case leaving the loop after its sweep
    /\ ~panicked
    /\ cpc = "select"
    /\ tickReady
    /\ tickReady' = FALSE
    /\ resetIfNeeded
    /\ cpc' = "exited"
    /\ UNCHANGED << now, events, chanClosed, closed, configVars, breakerVars, bucketVars, startVars, callerVars, tickStopped,
                    cur, idx, attemptNow, shutdownVars, panicked, nextId, accepted,
                    dropped, sent, sendOk, skipped, lastFailAt, circuitLogs >>

\* case <-q.flushTick.C
ConsumerTick ==
    /\ ~panicked
    /\ cpc = "select"
    /\ tickReady
    /\ tickReady' = FALSE
    /\ resetIfNeeded
    /\ UNCHANGED << now, events, chanClosed, closed, configVars, breakerVars, bucketVars, startVars, callerVars, tickStopped,
                    consumerVars, shutdownVars, panicked, nextId, accepted,
                    dropped, sent, sendOk, skipped, lastFailAt, circuitLogs >>

InBackoffZeroSkips(id, t) ==
    \* next.IsZero() || now.Before(next)
    LET next == MapGet(nextAllowed, id, ZeroTime)
    IN  next = ZeroTime \/ t < next

\* The backoff gate of one loop iteration of deliver().
InBackoff(id, t) == deliverSkips(QueueHealth, id, t)

\* One loop iteration of deliver() up to the call of sub.Send: the
\* subscriber is skipped, or its Send is invoked.
DeliverAttempt ==
    /\ ~panicked
    /\ cpc = "deliver"
    /\ twin' = TwinAttempt(idx, cur, now)
    /\ IF InBackoff(SubID(idx), now)
       THEN /\ skipped' = skipped \cup {<<cur.id, idx>>}
            /\ NextSubscriber
            /\ UNCHANGED sent
       ELSE /\ attemptNow' = now
            /\ sent' = [sent EXCEPT ![idx] = Append(@, cur)]
            /\ cpc' = "sending"
            /\ UNCHANGED << cur, idx, skipped, sweptSubs >>
    /\ UNCHANGED << now, events, chanClosed, closed, configVars, breakerVars, bucketVars, startVars, callerVars, lastSweepAt, healthVars,
                    tickReady, tickStopped, shutdownVars, panicked, nextId,
                    accepted, dropped, sendOk, consecFails, lastWait,
                    lastFailAt, circuitLogs >>

\* The bookkeeping of deliver() after a failed Send.
RecordFailure(id) ==
    LET q == afterFailure(QueueHealth, id, attemptNow)
    IN  /\ workerErrs' = q.workerErrs
        /\ nextAllowed' = q.nextAllowed
        /\ backoff' = q.backoff

RecordSuccessKeepsGate(id) ==
    \* the success branch without q.nextAllowed[id] = time.Time{}
    /\ workerErrs' = MapPut(workerErrs, id, 0)
    /\ backoff' = MapPut(backoff, id, backoffMin)
    /\ nextAllowed' = nextAllowed

\* The bookkeeping of deliver() after a successful Send.
RecordSuccess(id) ==
    LET q == afterSuccess(QueueHealth, id)
    IN  /\ workerErrs' = q.workerErrs
        /\ backoff' = q.backoff
        /\ nextAllowed' = q.nextAllowed

\* sub.Send returns, with an error or without, and deliver() records it.
SendReturn(ok) ==
    /\ ~panicked
    /\ cpc = "sending"
    /\ sendOk' = [sendOk EXCEPT ![idx] = @ \cup {ok}]
    /\ twin' = TwinReturn(ok, idx, attemptNow)
    /\ circuitLogs' = IF ~ok /\ circuitOpen(afterFailure(QueueHealth, SubID(idx), attemptNow),
                                            SubID(idx))
                      THEN circuitLogs \cup {idx} ELSE circuitLogs
    /\ IF ok
       THEN /\ RecordSuccess(SubID(idx))
            /\ consecFails' = [consecFails EXCEPT ![idx] = 0]
            /\ lastFailAt' = [lastFailAt EXCEPT ![idx] = ZeroTime]
            /\ lastWait' = [lastWait EXCEPT ![idx] = 0]
       ELSE /\ RecordFailure(SubID(idx))
            /\ consecFails' = [consecFails EXCEPT ![idx] = @ + 1]
            /\ lastFailAt' = [lastFailAt EXCEPT ![idx] = now]
            /\ lastWait' = [lastWait EXCEPT
                              ![idx] = nextAllowed'[SubID(idx)] - attemptNow]
    /\ NextSubscriber
    /\ UNCHANGED << now, events, chanClosed, closed, configVars, breakerVars, bucketVars, startVars, callerVars, lastSweepAt, tickReady,
                    tickStopped, shutdownVars, panicked, nextId, accepted,
                    dropped, sent, skipped >>

\* ------------------------------------------------------------- Shutdown
AcceptedIds == { accepted[i].id : i \in 1..Len(accepted) }

ShutdownBeginUnguarded(c) ==
    \* Shutdown without the q.closed check
    /\ ~panicked
    /\ spc[c] = "idle"
    /\ \A b \in Callers : b < c => spc[b] # "idle"
    /\ shutSnap' = [shutSnap EXCEPT ![c] = AcceptedIds]
    /\ closed' = TRUE
    /\ spc' = [spc EXCEPT ![c] = "closeChan"]
    /\ UNCHANGED << now, events, chanClosed, configVars, breakerVars, bucketVars, startVars, callerVars, sweepVars, healthVars, tickReady,
                    tickStopped, consumerVars, closeIdx, closeCount, chanCloses,
                    shutResult, closeErrs,
                    panicked, nextId, accepted, dropped, obsVars >>

\* q.mu.Lock(); if q.closed { return nil }; q.closed = true; q.mu.Unlock()
ShutdownBegin(c) ==
    /\ ~panicked
    /\ spc[c] = "idle"
    /\ \A b \in Callers : b < c => spc[b] # "idle"
    /\ shutSnap' = [shutSnap EXCEPT ![c] = AcceptedIds]
    /\ IF closed
       THEN /\ spc' = [spc EXCEPT ![c] = "returned"]
            /\ shutResult' = [shutResult EXCEPT ![c] = "nil"]
            /\ UNCHANGED closed
       ELSE /\ closed' = TRUE
            /\ spc' = [spc EXCEPT ![c] = "closeChan"]
            /\ UNCHANGED shutResult
    /\ UNCHANGED << now, events, chanClosed, configVars, breakerVars, bucketVars, startVars, callerVars, sweepVars, healthVars, tickReady,
                    tickStopped, consumerVars, closeIdx, closeCount, chanCloses,
                    closeErrs,
                    panicked, nextId, accepted, dropped, obsVars >>

\* close(q.events); closing a closed channel panics
ShutdownCloseChan(c) ==
    /\ ~panicked
    /\ spc[c] = "closeChan"
    /\ chanCloses' = chanCloses + 1
    /\ IF chanClosed
       THEN panicked' = TRUE /\ UNCHANGED chanClosed
       ELSE chanClosed' = TRUE /\ UNCHANGED panicked
    /\ spc' = [spc EXCEPT ![c] = "stopTick"]
    /\ UNCHANGED << now, events, closed, configVars, breakerVars, bucketVars, startVars, callerVars, sweepVars, healthVars, tickReady,
                    tickStopped, consumerVars, closeIdx, closeCount, shutSnap,
                    shutResult, closeErrs,
                    nextId, accepted, dropped, obsVars >>

\* q.flushTick.Stop()
ShutdownStopTick(c) ==
    /\ ~panicked
    /\ spc[c] = "stopTick"
    /\ tickStopped' = TRUE
    /\ spc' = [spc EXCEPT ![c] = "wait"]
    /\ UNCHANGED << now, events, chanClosed, closed, configVars, breakerVars, bucketVars, startVars, callerVars, sweepVars, healthVars,
                    tickReady, consumerVars, closeIdx, closeCount, chanCloses,
                    shutResult, closeErrs,
                    shutSnap, panicked, nextId, accepted, dropped, obsVars >>

ShutdownNoWait(c) ==
    \* Shutdown without q.wg.Wait()
    /\ ~panicked
    /\ spc[c] = "wait"
    /\ spc' = [spc EXCEPT ![c] = "closing"]
    /\ closeIdx' = [closeIdx EXCEPT ![c] = 1]
    /\ UNCHANGED << now, events, chanClosed, closed, configVars, breakerVars, bucketVars, startVars, callerVars, sweepVars, healthVars,
                    tickReady, tickStopped, consumerVars, closeCount, chanCloses,
                    shutResult, closeErrs,
                    shutSnap, panicked, nextId, accepted, dropped, obsVars >>

\* q.wg.Wait() returns once the consumer goroutine has run wg.Done()
ShutdownWait(c) ==
    /\ ~panicked
    /\ spc[c] = "wait"
    /\ cpc = "exited"
    /\ spc' = [spc EXCEPT ![c] = "closing"]
    /\ closeIdx' = [closeIdx EXCEPT ![c] = 1]
    /\ UNCHANGED << now, events, chanClosed, closed, configVars, breakerVars, bucketVars, startVars, callerVars, sweepVars, healthVars,
                    tickReady, tickStopped, consumerVars, closeCount, chanCloses,
                    shutResult, closeErrs,
                    shutSnap, panicked, nextId, accepted, dropped, obsVars >>

ShutdownCloseSubFailFast(c) ==
    \* if err := sub.Close(); err != nil { return err }
    /\ ~panicked
    /\ spc[c] = "closing"
    /\ closeCount' = [closeCount EXCEPT ![closeIdx[c]] = @ + 1]
    /\ \E err \in BOOLEAN :
        /\ closeErrs' = IF err THEN closeErrs \cup {closeIdx[c]} ELSE closeErrs
        /\ IF err
           THEN /\ closeIdx' = [closeIdx EXCEPT ![c] = 0]
                /\ spc' = [spc EXCEPT ![c] = "returned"]
                /\ shutResult' = [shutResult EXCEPT ![c] = "error"]
           ELSE IF closeIdx[c] < NumSubs
           THEN /\ closeIdx' = [closeIdx EXCEPT ![c] = @ + 1]
                /\ UNCHANGED << spc, shutResult >>
           ELSE /\ closeIdx' = [closeIdx EXCEPT ![c] = 0]
                /\ spc' = [spc EXCEPT ![c] = "returned"]
                /\ shutResult' = [shutResult EXCEPT ![c] = "nil"]
    /\ UNCHANGED << now, events, chanClosed, closed, configVars, breakerVars, bucketVars, startVars, callerVars, sweepVars, healthVars,
                    tickReady, tickStopped, consumerVars, chanCloses, shutSnap,
                    panicked, nextId, accepted, dropped, obsVars >>

\* one iteration of: for _, sub := range subs { _ = sub.Close() }, the
\* result of Close discarded; after the last one: return nil
ShutdownCloseSub(c) ==
    /\ ~panicked
    /\ spc[c] = "closing"
    /\ closeCount' = [closeCount EXCEPT ![closeIdx[c]] = @ + 1]
    /\ \E err \in BOOLEAN :
        closeErrs' = IF err THEN closeErrs \cup {closeIdx[c]} ELSE closeErrs
    /\ IF closeIdx[c] < NumSubs
       THEN /\ closeIdx' = [closeIdx EXCEPT ![c] = @ + 1]
            /\ UNCHANGED << spc, shutResult >>
       ELSE /\ closeIdx' = [closeIdx EXCEPT ![c] = 0]
            /\ spc' = [spc EXCEPT ![c] = "returned"]
            /\ shutResult' = [shutResult EXCEPT ![c] = "nil"]
    /\ UNCHANGED << now, events, chanClosed, closed, configVars, breakerVars, bucketVars, startVars, callerVars, sweepVars, healthVars,
                    tickReady, tickStopped, consumerVars, chanCloses, shutSnap,
                    panicked, nextId, accepted, dropped, obsVars >>

\* ----------------------------------------------------------------- Next
Next ==
    \/ Tick
    \/ Track(trackIn)
    \/ ConsumerRecv
    \/ ConsumerExit
    \/ ConsumerTick
    \/ DeliverAttempt
    \/ \E ok \in BOOLEAN : SendReturn(ok)
    \/ \E c \in Callers : ShutdownBegin(c)
    \/ \E c \in Callers : ShutdownCloseChan(c)
    \/ \E c \in Callers : ShutdownStopTick(c)
    \/ \E c \in Callers : ShutdownWait(c)
    \/ \E c \in Callers : ShutdownCloseSub(c)

Spec == Init /\ [][Next]_vars

\* Track and the delivery of its events, for every kind of Track input.
InitEnrich ==
    QueueInit(BurstConfigChoices,
              { <<"*subscribers.WebhookSubscriber", "*subscribers.PostHogSubscriber">> },
              EnrichInputs)
    /\ IdleBreaker
    /\ IdleBucket
    /\ NoStart

NextEnrich ==
    \/ Track(trackIn)
    \/ ConsumerRecv
    \/ DeliverAttempt
    \/ \E ok \in BOOLEAN : SendReturn(ok)

SpecEnrich == InitEnrich /\ [][NextEnrich]_vars

InitBurst ==
    QueueInit(BurstConfigChoices, SubTypeChoices, TrackInputs) /\ IdleBreaker
    /\ IdleBucket
    /\ NoStart

SpecBurst == InitBurst /\ [][Next]_vars

\* ------------------------------------------------ circuit breaker calls
\* cb.setState(s), called with cb.mu held
setState(s) ==
    /\ state' = s
    /\ lastStateChange' = now

\* Allow, first part: the fields are read under the read lock.
BreakerAllowRead(t) ==
    /\ apc[t] = "idle"
    /\ calls < MaxCalls
    /\ calls' = calls + 1
    /\ aState' = [aState EXCEPT ![t] = state]
    /\ aLastChange' = [aLastChange EXCEPT ![t] = lastStateChange]
    /\ apc' = [apc EXCEPT ![t] = "switch"]
    /\ UNCHANGED << now, queueVars, bucketVars, startVars, state, failureCount, successCount,
                    failureThreshold, successThreshold, timeout,
                    lastStateChange, allowRet, failRun, succRun, lastRecord >>

BreakerAllowSwitchAtTimeout(t) ==
    \* time.Since(lastChange) >= timeout
    /\ apc[t] = "switch"
    /\ IF aState[t] = StateOpen /\ now - aLastChange[t] >= timeout
       THEN /\ state' = StateHalfOpen
            /\ succRun' = IF state = StateHalfOpen THEN succRun ELSE 0
            /\ apc' = [apc EXCEPT ![t] = "stamp"]
            /\ UNCHANGED allowRet
       ELSE /\ allowRet' = [allowRet EXCEPT
                              ![t] = IF aState[t] = StateOpen THEN "false"
                                     ELSE "true"]
            /\ apc' = [apc EXCEPT ![t] = "idle"]
            /\ UNCHANGED << state, succRun >>
    /\ UNCHANGED << now, queueVars, bucketVars, startVars, failureCount, successCount,
                    failureThreshold, successThreshold, timeout,
                    lastStateChange, aState, aLastChange, calls, failRun,
                    lastRecord >>

BreakerAllowSwitchResets(t) ==
    \* the Open -> HalfOpen transition with `cb.failureCount = 0`
    /\ apc[t] = "switch"
    /\ IF aState[t] = StateOpen /\ now - aLastChange[t] > timeout
       THEN /\ state' = StateHalfOpen
            /\ failureCount' = 0
            /\ succRun' = IF state = StateHalfOpen THEN succRun ELSE 0
            /\ apc' = [apc EXCEPT ![t] = "stamp"]
            /\ UNCHANGED allowRet
       ELSE /\ allowRet' = [allowRet EXCEPT
                              ![t] = IF aState[t] = StateOpen THEN "false"
                                     ELSE "true"]
            /\ apc' = [apc EXCEPT ![t] = "idle"]
            /\ UNCHANGED << state, succRun, failureCount >>
    /\ UNCHANGED << now, queueVars, bucketVars, startVars, successCount,
                    failureThreshold, successThreshold, timeout,
                    lastStateChange, aState, aLastChange, calls, failRun,
                    lastRecord >>

\* Allow, the switch on the state that was read: with the lock released.
\* An Open breaker whose timeout has elapsed gets cb.state = StateHalfOpen
\* written here, the first assignment of setState.
BreakerAllowSwitch(t) ==
    /\ apc[t] = "switch"
    /\ IF aState[t] = StateOpen /\ now - aLastChange[t] > timeout
       THEN /\ state' = StateHalfOpen
            /\ succRun' = IF state = StateHalfOpen THEN succRun ELSE 0
            /\ apc' = [apc EXCEPT ![t] = "stamp"]
            /\ UNCHANGED allowRet
       ELSE /\ allowRet' = [allowRet EXCEPT
                              ![t] = IF aState[t] = StateOpen THEN "false"
                                     ELSE "true"]
            /\ apc' = [apc EXCEPT ![t] = "idle"]
            /\ UNCHANGED << state, succRun >>
    /\ UNCHANGED << now, queueVars, bucketVars, startVars, failureCount, successCount,
                    failureThreshold, successThreshold, timeout,
                    lastStateChange, aState, aLastChange, calls, failRun,
                    lastRecord >>

\* Allow, the second assignment of its setState and return true
BreakerAllowStamp(t) ==
    /\ apc[t] = "stamp"
    /\ lastStateChange' = now
    /\ allowRet' = [allowRet EXCEPT ![t] = "true"]
    /\ apc' = [apc EXCEPT ![t] = "idle"]
    /\ UNCHANGED << now, queueVars, bucketVars, startVars, state, failureCount, successCount,
                    failureThreshold, successThreshold, timeout, aState,
                    aLastChange, calls, failRun, succRun, lastRecord >>

BreakerRecordSuccessKeepsCount ==
    \* RecordSuccess without `cb.failureCount = 0` in the else branch
    /\ calls < MaxCalls
    /\ calls' = calls + 1
    /\ failRun' = 0
    /\ succRun' = IF state = StateHalfOpen THEN succRun + 1 ELSE 0
    /\ lastRecord' = [op |-> "RecordSuccess", from |-> state,
                      clean |-> /\ lastRecord.clean
                                /\ state = StateHalfOpen
                                /\ successCount + 1 < successThreshold]
    /\ IF state = StateHalfOpen
       THEN IF successCount + 1 >= successThreshold
            THEN /\ setState(StateClosed)
                 /\ successCount' = 0
                 /\ failureCount' = 0
            ELSE /\ successCount' = successCount + 1
                 /\ UNCHANGED << state, lastStateChange, failureCount >>
       ELSE UNCHANGED << state, lastStateChange, successCount, failureCount >>
    /\ UNCHANGED << now, queueVars, bucketVars, startVars, failureThreshold, successThreshold,
                    timeout, apc, aState, aLastChange, allowRet >>

BreakerRecordSuccessClosesAtOnce ==
    \* RecordSuccess closing a HalfOpen breaker whatever successThreshold is
    /\ calls < MaxCalls
    /\ calls' = calls + 1
    /\ failRun' = 0
    /\ succRun' = IF state = StateHalfOpen THEN succRun + 1 ELSE 0
    /\ lastRecord' = [op |-> "RecordSuccess", from |-> state,
                      clean |-> /\ lastRecord.clean
                                /\ state = StateHalfOpen
                                /\ successCount + 1 < successThreshold]
    /\ IF state = StateHalfOpen
       THEN /\ setState(StateClosed)
            /\ successCount' = 0
            /\ failureCount' = 0
       ELSE /\ failureCount' = 0
            /\ UNCHANGED << state, lastStateChange, successCount >>
    /\ UNCHANGED << now, queueVars, bucketVars, startVars, failureThreshold, successThreshold,
                    timeout, apc, aState, aLastChange, allowRet >>

\* CircuitBreaker.RecordSuccess, under cb.mu
BreakerRecordSuccess ==
    /\ calls < MaxCalls
    /\ calls' = calls + 1
    /\ failRun' = 0
    /\ succRun' = IF state = StateHalfOpen THEN succRun + 1 ELSE 0
    /\ lastRecord' = [op |-> "RecordSuccess", from |-> state,
                      clean |-> /\ lastRecord.clean
                                /\ state = StateHalfOpen
                                /\ successCount + 1 < successThreshold]
    /\ IF state = StateHalfOpen
       THEN IF successCount + 1 >= successThreshold
            THEN /\ setState(StateClosed)
                 /\ successCount' = 0
                 /\ failureCount' = 0
            ELSE /\ successCount' = successCount + 1
                 /\ UNCHANGED << state, lastStateChange, failureCount >>
       ELSE /\ failureCount' = 0
            /\ UNCHANGED << state, lastStateChange, successCount >>
    /\ UNCHANGED << now, queueVars, bucketVars, startVars, failureThreshold, successThreshold,
                    timeout, apc, aState, aLastChange, allowRet >>

BreakerRecordFailureReopens ==
    \* RecordFailure reopening a HalfOpen breaker on any failure
    /\ calls < MaxCalls
    /\ calls' = calls + 1
    /\ failRun' = failRun + 1
    /\ succRun' = 0
    /\ lastRecord' = [op |-> "RecordFailure", from |-> state,
                      clean |-> IF failureCount + 1 >= failureThreshold
                                THEN state # StateOpen \/ lastRecord.clean
                                ELSE lastRecord.clean]
    /\ failureCount' = failureCount + 1
    /\ successCount' = 0
    /\ IF state = StateHalfOpen \/ failureCount + 1 >= failureThreshold
       THEN setState(StateOpen)
       ELSE UNCHANGED << state, lastStateChange >>
    /\ UNCHANGED << now, queueVars, bucketVars, startVars, failureThreshold, successThreshold,
                    timeout, apc, aState, aLastChange, allowRet >>

BreakerRecordFailureKeepsSuccesses ==
    \* RecordFailure without `cb.successCount = 0`
    /\ calls < MaxCalls
    /\ calls' = calls + 1
    /\ failRun' = failRun + 1
    /\ succRun' = 0
    /\ lastRecord' = [op |-> "RecordFailure", from |-> state,
                      clean |-> IF failureCount + 1 >= failureThreshold
                                THEN state # StateOpen \/ lastRecord.clean
                                ELSE lastRecord.clean]
    /\ failureCount' = failureCount + 1
    /\ successCount' = successCount
    /\ IF failureCount + 1 >= failureThreshold
       THEN setState(StateOpen)
       ELSE UNCHANGED << state, lastStateChange >>
    /\ UNCHANGED << now, queueVars, bucketVars, startVars, failureThreshold, successThreshold,
                    timeout, apc, aState, aLastChange, allowRet >>

\* CircuitBreaker.RecordFailure, under cb.mu
BreakerRecordFailure ==
    /\ calls < MaxCalls
    /\ calls' = calls + 1
    /\ failRun' = failRun + 1
    /\ succRun' = 0
    /\ lastRecord' = [op |-> "RecordFailure", from |-> state,
                      clean |-> IF failureCount + 1 >= failureThreshold
                                THEN state # StateOpen \/ lastRecord.clean
                                ELSE lastRecord.clean]
    /\ failureCount' = failureCount + 1
    /\ successCount' = 0
    /\ IF failureCount + 1 >= failureThreshold
       THEN setState(StateOpen)
       ELSE UNCHANGED << state, lastStateChange >>
    /\ UNCHANGED << now, queueVars, bucketVars, startVars, failureThreshold, successThreshold,
                    timeout, apc, aState, aLastChange, allowRet >>

\* A breaker with thresholds of one call and of several, used by two threads
\* while time passes; the queue is not used.
InitCB ==
    /\ QueueInit(BurstConfigChoices,
                 { <<"*subscribers.WebhookSubscriber", "*subscribers.PostHogSubscriber">> },
                 { CHOOSE in \in TrackInputs : ~in.recording })
    /\ BreakerInit({1, FailureThresholdCfg}, {1, SuccessThresholdCfg}, {TimeoutCfg})
    /\ IdleBucket
    /\ NoStart

NextCB ==
    \/ Tick
    \/ \E t \in Threads : BreakerAllowRead(t)
    \/ \E t \in Threads : BreakerAllowSwitch(t)
    \/ \E t \in Threads : BreakerAllowStamp(t)
    \/ BreakerRecordSuccess
    \/ BreakerRecordFailure

SpecCB == InitCB /\ [][NextCB]_vars

\* --------------------------------------------------- token bucket calls
\* A thread calls Allow and waits for tb.mu.
TokenBucketAllowCall(t) ==
    /\ tpc[t] = "idle"
    /\ allowCalls < MaxCalls
    /\ allowCalls' = allowCalls + 1
    /\ tpc' = [tpc EXCEPT ![t] = "lock"]
    /\ overlap' = (overlap \/ \E u \in Threads \ {t} : tpc[u] # "idle")
    /\ UNCHANGED << now, queueVars, breakerVars, startVars, rate, burst, tokens, lastUpdate,
                    mu, epochTokens, epochFull, epochRets, rlRet >>

\* tb.mu.Lock() returns without waiting for the holder.
TokenBucketAllowLockFree(t) ==
    /\ tpc[t] = "lock"
    /\ mu' = t
    /\ tpc' = [tpc EXCEPT ![t] = "refill"]
    /\ UNCHANGED << now, queueVars, breakerVars, startVars, rate, burst, tokens, lastUpdate,
                    allowCalls, epochTokens, epochFull, epochRets, overlap,
                    rlRet >>

\* tb.mu.Lock()
TokenBucketAllowLock(t) ==
    /\ tpc[t] = "lock"
    /\ mu = 0
    /\ mu' = t
    /\ tpc' = [tpc EXCEPT ![t] = "refill"]
    /\ UNCHANGED << now, queueVars, breakerVars, startVars, rate, burst, tokens, lastUpdate,
                    allowCalls, epochTokens, epochFull, epochRets, overlap,
                    rlRet >>

\* The refill without its cap.
TokenBucketRefillUncapped(elapsed) == tokens + elapsed * rate

\* min(float64(tb.burst), tb.tokens+elapsed*tb.rate)
TokenBucketRefill(elapsed) == Min(burst * OneToken, tokens + elapsed * rate)

\* now := time.Now(); the elapsed time refills the bucket; tb.lastUpdate = now
TokenBucketAllowRefill(t) ==
    /\ tpc[t] = "refill"
    /\ LET elapsed == now - lastUpdate IN
        /\ tokens' = TokenBucketRefill(elapsed)
        /\ lastUpdate' = now
        /\ IF elapsed = 0
           THEN UNCHANGED << epochTokens, epochFull, epochRets, overlap >>
           ELSE /\ epochTokens' = tokens'
                /\ epochFull' = (elapsed * rate >= burst * OneToken)
                /\ epochRets' = <<>>
                /\ overlap' = (\E u \in Threads \ {t} : tpc[u] # "idle")
    /\ tpc' = [tpc EXCEPT ![t] = "check"]
    /\ UNCHANGED << now, queueVars, breakerVars, startVars, rate, burst, mu,
                    allowCalls, rlRet >>

\* if tb.tokens >= 1.0; when not, Allow returns false and unlocks tb.mu
TokenBucketAllowCheck(t) ==
    /\ tpc[t] = "check"
    /\ IF tokens >= OneToken
       THEN /\ tpc' = [tpc EXCEPT ![t] = "consume"]
            /\ UNCHANGED << mu, epochRets, rlRet >>
       ELSE /\ tpc' = [tpc EXCEPT ![t] = "idle"]
            /\ mu' = 0
            /\ epochRets' = Append(epochRets, FALSE)
            /\ rlRet' = [rlRet EXCEPT ![t] = "false"]
    /\ UNCHANGED << now, queueVars, breakerVars, startVars, rate, burst, tokens, lastUpdate,
                    allowCalls, epochTokens, epochFull, overlap >>

\* tb.tokens -= 1.0; Allow returns true and unlocks tb.mu
TokenBucketAllowConsume(t) ==
    /\ tpc[t] = "consume"
    /\ tokens' = tokens - OneToken
    /\ tpc' = [tpc EXCEPT ![t] = "idle"]
    /\ mu' = 0
    /\ epochRets' = Append(epochRets, TRUE)
    /\ rlRet' = [rlRet EXCEPT ![t] = "true"]
    /\ UNCHANGED << now, queueVars, breakerVars, startVars, rate, burst, lastUpdate,
                    allowCalls, epochTokens, epochFull, overlap >>

\* the rates and bursts NewTokenBucket is given: it takes any float64 and int
RateChoices == { -RateCfg, 0, RateCfg, OneToken, BurstCfg * OneToken }
BurstChoices == { -1, 0, BurstCfg }

\* A bucket used by two threads while time passes; the queue and the breaker
\* are not used.
InitTB ==
    /\ QueueInit(BurstConfigChoices,
                 { <<"*subscribers.WebhookSubscriber", "*subscribers.PostHogSubscriber">> },
                 { CHOOSE in \in TrackInputs : ~in.recording })
    /\ IdleBreaker
    /\ NewTokenBucket(RateChoices, BurstChoices)
    /\ NoStart

NextTB ==
    \/ Tick
    \/ \E t \in Threads : TokenBucketAllowCall(t)
    \/ \E t \in Threads : TokenBucketAllowLock(t)
    \/ \E t \in Threads : TokenBucketAllowRefill(t)
    \/ \E t \in Threads : TokenBucketAllowCheck(t)
    \/ \E t \in Threads : TokenBucketAllowConsume(t)

SpecTB == InitTB /\ [][NextTB]_vars

\* ------------------------------------------------------ the running loop
\* The queue in service: producers call Track, the ticker fires, the consumer
\* goroutine runs its loop; nobody calls Shutdown.
InitLoop ==
    /\ QueueInit(BurstConfigChoices, SubTypeChoices,
                 { CHOOSE in \in TrackInputs : ~in.recording })
    /\ IdleBreaker
    /\ IdleBucket
    /\ NoStart

NextLoop ==
    \/ Tick
    \/ Track(trackIn)
    \/ ConsumerRecv
    \/ ConsumerTick
    \/ DeliverAttempt
    \/ \E ok \in BOOLEAN : SendReturn(ok)

\* The consumer goroutine is scheduled again and again and every Send
\* returns; a select with several ready cases picks one at random, so a case
\* that is ready again and again is taken.
LoopFairness ==
    /\ SF_vars(ConsumerRecv)
    /\ SF_vars(ConsumerTick)
    /\ WF_vars(DeliverAttempt)
    /\ WF_vars(\E ok \in BOOLEAN : SendReturn(ok))

SpecLoop == InitLoop /\ [][NextLoop]_vars /\ LoopFairness

\* ------------------------------------------------------------ properties
Count(seq, x) == Cardinality({ i \in 1..Len(seq) : seq[i] = x })

SentIds(s) == { sent[s][i].id : i \in 1..Len(sent[s]) }

BufferedIds == { events[i].id : i \in 1..Len(events) }

\* deliver() has returned for the accepted event e
Processed(e) == e \in AcceptedIds /\ e \notin BufferedIds /\ cur.id # e

AllTracked == nextId > MaxEvents

Pow2(n) == 2 ^ n

C2_TrackAfterShutdownReturns ==
    [][ (closed /\ nextId' = nextId + 1) => ~panicked' ]_vars

\* C3: Shutdown is idempotent: for sequential or concurrent Shutdown calls the
\* event channel is closed at most once (a second close would panic) and
\* every subscriber's Close is invoked at most once; once every Shutdown call
\* has returned the channel was closed exactly once and every subscriber was
\* closed exactly once.
C3_ShutdownIdempotent ==
    /\ chanCloses <= 1
    /\ \A s \in Subs : closeCount[s] <= 1
    /\ (\A c \in Callers : spc[c] = "returned")
          => chanCloses = 1 /\ \A s \in Subs : closeCount[s] = 1

C3_Witness ==
    /\ \A c \in Callers : spc[c] = "returned"
    /\ chanCloses = 1
    /\ \A s \in Subs : closeCount[s] = 1

\* C4: when a Shutdown call has returned, every event accepted into the
\* buffer before that call was made has been dequeued and processed.
C4_ShutdownFlushes ==
    \A c \in Callers :
        spc[c] = "returned" => \A e \in shutSnap[c] : Processed(e)

\* C5: the consumer loop has exited before any subscriber's Close is called,
\* so no Send is invoked on a subscriber after its Close.
C5_CloseAfterConsumerExit ==
    \A c \in Callers : \A s \in Subs :
        (spc[c] = "closing" \/ closeCount[s] > 0)
            => cpc = "exited" /\ events = <<>>

C5_Witness ==
    /\ closeCount[1] = 1
    /\ Len(sent[1]) = MaxEvents
    /\ cpc = "exited"

\* C6: fan-out: while no Send has failed, every event deliver() has finished
\* with was handed to every subscriber's Send exactly once, with the name and
\* the enriched properties it was accepted with.
C6_FanOut ==
    (\A s \in Subs : FALSE \notin sendOk[s])
        => \A i \in 1..Len(accepted) :
              Processed(accepted[i].id)
                  => \A s \in Subs :
                        /\ Count(sent[s], accepted[i]) = 1
                        /\ Cardinality({ j \in 1..Len(sent[s]) :
                                           sent[s][j].id = accepted[i].id }) = 1

C6_Witness ==
    /\ \A s \in Subs : sendOk[s] = {TRUE}
    /\ Len(accepted) = MaxEvents
    /\ \A i \in 1..Len(accepted) : Processed(accepted[i].id)
    /\ \A s \in Subs : Len(sent[s]) = MaxEvents

\* C7: isolation: for any two distinct subscribers A and B, while A's Send has
\* only failed and B's Send has only succeeded, every event deliver() has
\* finished with was sent to B.
C7_Isolation ==
    \A a \in Subs : \A b \in Subs \ {a} :
        (TRUE \notin sendOk[a] /\ FALSE \notin sendOk[b])
            => \A e \in AcceptedIds : Processed(e) => e \in SentIds(b)

\* C8: backoff growth: after k consecutive failed Sends to a subscriber (no
\* success of it and no sweep in between) the wait set by the k-th failure,
\* nextAllowed minus the instant of that attempt, is
\* min(backoffMin * 2^(k-1), backoffMax).
C8_BackoffGrowth ==
    \A s \in Subs :
        consecFails[s] > 0
            => lastWait[s] = Min(backoffMin * Pow2(consecFails[s] - 1), backoffMax)

\* C9: after a Send to a subscriber has failed, no Send to it is started
\* until backoffMin has elapsed since that failed Send returned.
C9_NoSendWithinBackoffMin ==
    (cpc = "sending" /\ lastFailAt[idx] # ZeroTime)
        => attemptNow - lastFailAt[idx] >= backoffMin

C11_SuccessResets ==
    [][ (cpc = "sending" /\ cpc' # "sending" /\ consecFails'[idx] = 0)
            => LET id == SubID(idx)
               IN  /\ MapGet(workerErrs', id, 0) = 0
                   /\ MapGet(backoff', id, 0) = backoffMin
                   /\ MapGet(nextAllowed', id, ZeroTime) = ZeroTime
      ]_vars

C11_Witness ==
    /\ subType[1] # subType[2]
    /\ lastSweepAt = ZeroTime
    /\ sendOk[1] = {TRUE, FALSE}
    /\ Len(sent[1]) = 2
    /\ cpc # "sending"
    /\ consecFails[1] = 0
    /\ MapGet(workerErrs, SubID(1), 1) = 0
    /\ MapGet(nextAllowed, SubID(1), 1) = ZeroTime

\* C12: reset sweep: a subscriber that was backed off when the periodic sweep
\* ran is attempted again, not skipped, for the next event that is dequeued
\* after the sweep.
C12_SweptAttemptedAgain ==
    [][ \A s \in sweptSubs : <<cur.id, s>> \notin skipped' ]_vars

\* C19: Close errors are absorbed: whatever subset of the subscribers return
\* an error from Close, the Shutdown call that runs the Close loop returns nil
\* and has called Close on every registered subscriber; no Shutdown call
\* returns an error.
C19_CloseErrorsAbsorbed ==
    [][ \A c \in Callers :
          /\ shutResult'[c] \in {"none", "nil"}
          /\ (spc[c] = "closing" /\ spc'[c] = "returned")
                => /\ shutResult'[c] = "nil"
                   /\ \A s \in Subs : closeCount'[s] = 1
      ]_vars

C19_Witness ==
    /\ closeErrs = {1}
    /\ \A s \in Subs : closeCount[s] = 1
    /\ \A c \in Callers : spc[c] = "returned" /\ shutResult[c] = "nil"

\* deliver() has dealt with subscriber s for event e: Send was invoked or the
\* subscriber was skipped for backoff
Handled(e, s) == e \in SentIds(s) \/ <<e, s>> \in skipped

\* C15: within one event the subscribers are attempted in registration order,
\* one at a time: while deliver() is at subscriber i, every subscriber before
\* i has been handled (sent or skipped) for the event, none after i has, and
\* i itself has exactly when its Send is running; every other event that any
\* subscriber was handled for has been handled for all of them.
C15_RegistrationOrder ==
    /\ cpc \in {"deliver", "sending"}
          => \A s \in Subs :
                /\ s < idx => Handled(cur.id, s)
                /\ s > idx => ~Handled(cur.id, s)
                /\ s = idx => (Handled(cur.id, s) <=> cpc = "sending")
    /\ \A e \in 1..MaxEvents :
          (e # cur.id /\ \E s \in Subs : Handled(e, s))
              => \A s \in Subs : Handled(e, s)

C15_Witness ==
    /\ cpc = "sending"
    /\ idx = NumSubs
    /\ cur.id = 2
    /\ \A s \in Subs : Handled(1, s)
    /\ \A s \in Subs : s < idx => Handled(2, s)

\* C16: health-record invariant: every id that has a backoff entry has
\* backoffMin <= backoff <= backoffMax, for every cfg NewQueueWithConfig takes.
C16_BackoffClamped ==
    \A id \in DOMAIN backoff :
        backoffMin <= backoff[id] /\ backoff[id] <= backoffMax

\* position of an accepted event in the order Track accepted the events
AcceptPos(ev) == CHOOSE k \in 1..Len(accepted) : accepted[k] = ev

\* C14: FIFO delivery: the events a subscriber's Send is invoked with are
\* accepted events, in the order Track accepted them, none of them twice.
C14_Fifo ==
    \A s \in Subs : \A i \in 1..Len(sent[s]) :
        /\ \E k \in 1..Len(accepted) : accepted[k] = sent[s][i]
        /\ \A j \in 1..Len(sent[s]) :
              i < j => AcceptPos(sent[s][i]) < AcceptPos(sent[s][j])

C14_Witness ==
    /\ Len(accepted) = MaxEvents
    /\ queueSize >= MaxEvents
    /\ \A s \in Subs : sent[s] = accepted

\* C13: the circuit reset interval governs how often health is reset: between
\* two consecutive periodic resets of health records at least cbReset elapses.
C13_ResetEveryCircuitReset ==
    [][ (tickReady /\ ~tickReady' /\ DOMAIN workerErrs # {}
            /\ lastSweepAt # ZeroTime)
            => now - lastSweepAt >= cbReset
      ]_vars

\* the events handed to some subscriber's Send
Delivered == UNION { { sent[s][i] : i \in 1..Len(sent[s]) } : s \in Subs }

\* C18: enrichment: a delivered event's properties hold the keys trace_id and
\* span_id exactly when the context given to Track carried a valid recording
\* span, and then their values are that span's trace id (32 hex characters)
\* and span id (16 hex characters).
C18_Enrichment ==
    \A ev \in Delivered :
        LET p == ev.properties
            active == trackIn.recording /\ trackIn.valid
        IN  /\ ("trace_id" \in DOMAIN p) <=> active
            /\ ("span_id" \in DOMAIN p) <=> active
            /\ active => /\ p["trace_id"] = HexBytes(trackIn.traceID)
                         /\ p["span_id"] = HexBytes(trackIn.spanID)

\* C17 as stated: Track leaves the caller's map as it was, and every accepted
\* event carries all of the caller's entries.
C17_CopyHoldsAllEntries ==
    /\ callerProps = trackIn.properties
    /\ \A i \in 1..Len(accepted) : \A k \in DOMAIN trackIn.properties :
          /\ k \in DOMAIN accepted[i].properties
          /\ accepted[i].properties[k] = trackIn.properties[k]

\* C17, amended: Track leaves the caller's map as it was (no trace_id, span_id
\* or operation.name is added to it); every accepted event carries a map whose
\* keys are the caller's keys and the keys the enrichment assigns, and which
\* holds the caller's entry under every key the enrichment does not assign.
C17_CopyHoldsUnassignedEntries ==
    /\ callerProps = trackIn.properties
    /\ \A i \in 1..Len(accepted) :
          /\ DOMAIN accepted[i].properties
                = DOMAIN trackIn.properties \cup EnrichmentKeys(trackIn)
          /\ \A k \in DOMAIN trackIn.properties \ EnrichmentKeys(trackIn) :
                accepted[i].properties[k] = trackIn.properties[k]

C17_Witness ==
    /\ accepted # <<>>
    /\ trackIn.recording /\ trackIn.valid
    /\ "trace_id" \in DOMAIN callerProps
    /\ callerProps["trace_id"] = "caller"
    /\ accepted[1].properties["trace_id"] # "caller"
    /\ accepted[1].properties["key"] = "value"
    /\ "span_id" \notin DOMAIN callerProps
    /\ accepted[1] \in Delivered

\* C20: the breaker starts Closed, and with a failure threshold of at least
\* one call it moves from Closed to Open exactly when failureThreshold
\* RecordFailure calls have been made with no RecordSuccess call between
\* them: a step takes a Closed breaker to Open if and only if it is a
\* RecordFailure that completes such a run; every RecordSuccess on a Closed
\* breaker sets the failure counter to zero.
C20_ClosedToOpen ==
    /\ (calls = 0) => state = StateClosed
    /\ [][ /\ (state = StateClosed /\ state' = StateOpen)
                => (failRun' = failRun + 1 /\ failRun' = failureThreshold)
           /\ (state = StateClosed /\ failRun' = failRun + 1
                  /\ failRun' = failureThreshold)
                => state' = StateOpen
           /\ (state = StateClosed /\ failRun' = 0 /\ calls' = calls + 1)
                => failureCount' = 0
           /\ (state = StateClosed /\ state' = StateClosed)
                => failureCount' = failRun'
         ]_vars

C20_Witness ==
    /\ state = StateOpen
    /\ failureThreshold = FailureThresholdCfg
    /\ failRun = failureThreshold
    /\ calls > failureThreshold + 1
    /\ \A t \in Threads : allowRet[t] = "true"
    /\ lastStateChange > 1

\* the health record deliver() reads and writes for subscriber s
HealthRecord(s) ==
    << MapGet(workerErrs, SubID(s), 0), MapGet(backoff, SubID(s), 0),
       MapGet(nextAllowed, SubID(s), ZeroTime) >>

\* C30: health records are per subscriber: when a Send to subscriber A
\* returns, with or without error, the failure count, backoff and nextAllowed
\* of every other registered subscriber B are what they were.
C30_PerDestinationRecords ==
    [][ (cpc = "sending" /\ cpc' # "sending")
            => \A b \in Subs \ {idx} : HealthRecord(b)' = HealthRecord(b)
      ]_vars

\* the fields of the breaker that its methods write
BreakerFields == << state, failureCount, successCount, lastStateChange >>

\* C21: Allow, in terms of the state and lastStateChange it reads: it returns
\* false exactly when that state is Open and no more than timeout has elapsed
\* since that lastStateChange; when it is Open and more than timeout has
\* elapsed Allow writes HalfOpen, stamps lastStateChange and returns true;
\* when it is Closed or HalfOpen Allow returns true and writes no field.
C21_Allow ==
    [][ \A t \in Threads :
          /\ (apc[t] = "idle" /\ apc'[t] = "switch")
                => BreakerFields' = BreakerFields
          /\ (apc[t] = "switch" /\ apc'[t] # "switch")
                => LET open == aState[t] = StateOpen
                       late == now - aLastChange[t] > timeout
                   IN  /\ (open /\ ~late)
                             => /\ apc'[t] = "idle"
                                /\ allowRet'[t] = "false"
                                /\ BreakerFields' = BreakerFields
                       /\ (open /\ late)
                             => /\ apc'[t] = "stamp"
                                /\ state' = StateHalfOpen
                       /\ ~open
                             => /\ apc'[t] = "idle"
                                /\ allowRet'[t] = "true"
                                /\ BreakerFields' = BreakerFields
          /\ (apc[t] = "stamp" /\ apc'[t] = "idle")
                => /\ allowRet'[t] = "true"
                   /\ lastStateChange' = now
                   /\ << state, failureCount, successCount >>'
                         = << state, failureCount, successCount >>
      ]_vars

C21_Witness ==
    /\ state = StateHalfOpen
    /\ \A t \in Threads : apc[t] = "idle"
    /\ allowRet[1] = "false"
    /\ allowRet[2] = "true"
    /\ lastRecord.op = "RecordFailure"
    /\ lastStateChange > timeout + 1

\* C22: recovery: a HalfOpen breaker has counted the RecordSuccess calls made
\* since it became HalfOpen or RecordFailure was last called, fewer than
\* successThreshold of them; the RecordSuccess call that brings this run to
\* successThreshold moves the breaker to Closed with failureCount = 0 and
\* successCount = 0, and an earlier one leaves it HalfOpen.
C22_Recovery ==
    /\ [](state = StateHalfOpen
            => (successCount = succRun /\ succRun < successThreshold))
    /\ [][ (state = StateHalfOpen /\ succRun' = succRun + 1)
              => IF succRun' = successThreshold
                 THEN /\ state' = StateClosed
                      /\ failureCount' = 0
                      /\ successCount' = 0
                 ELSE /\ state' = StateHalfOpen
                      /\ succRun' < successThreshold
         ]_vars

C22_Witness ==
    /\ state = StateClosed
    /\ lastRecord.op = "RecordSuccess"
    /\ lastRecord.from = StateHalfOpen
    /\ successThreshold = SuccessThresholdCfg
    /\ succRun = successThreshold
    /\ failureCount = 0
    /\ successCount = 0

\* C23: a failure in HalfOpen accumulates: a RecordFailure call on a HalfOpen
\* breaker adds one to failureCount and moves the breaker to Open exactly
\* when the counter is then at failureThreshold or above; otherwise the
\* breaker stays HalfOpen.
C23_HalfOpenFailureAccumulates ==
    [][ (state = StateHalfOpen /\ failRun' = failRun + 1)
            => /\ failureCount' = failureCount + 1
               /\ state' = IF failureCount' >= failureThreshold
                            THEN StateOpen ELSE StateHalfOpen
      ]_vars

C23_Witness ==
    /\ state = StateHalfOpen
    /\ lastRecord.op = "RecordFailure"
    /\ lastRecord.from = StateHalfOpen
    /\ failureCount = 1
    /\ failureCount < failureThreshold

\* C24: linearizability of the breaker: under every interleaving of the
\* calls the state changes only along Closed -> Open, Open -> HalfOpen,
\* HalfOpen -> Closed and HalfOpen -> Open, the changes a sequential order of
\* the calls can make.
C24_SequentialTransitions ==
    [][ state' # state
            => << state, state' >> \in
                  { << StateClosed, StateOpen >>, << StateOpen, StateHalfOpen >>,
                    << StateHalfOpen, StateClosed >>, << StateHalfOpen, StateOpen >> }
      ]_vars

\* ------------------------------------------------------------------ C25
\* C25: after construction and after any sequence of Allow calls made at
\* non-decreasing times, the bucket holds at least no token and at most burst
\* tokens.
C25_TokensWithinBurst == 0 <= tokens /\ tokens <= burst * OneToken

\* ------------------------------------------------------------------ C26
\* C26: Allow first refills the bucket by elapsed * rate, capped at burst;
\* then it returns true and takes exactly one token when at least one token
\* is there, and returns false and takes nothing otherwise. So of the calls
\* made at one instant on a full bucket (a new one, or one whose Allow
\* measured elapsed * rate >= burst, that is elapsed >= burst / rate) the
\* first burst calls return true and every later one returns false.
C26_Allow ==
    /\ [](epochFull => \A k \in DOMAIN epochRets : epochRets[k] = (k <= burst))
    /\ [][ \A t \in Threads :
             /\ (tpc[t] = "refill" /\ tpc'[t] = "check")
                   => /\ tokens' = Min(burst * OneToken,
                                       tokens + (now - lastUpdate) * rate)
                      /\ lastUpdate' = now
             /\ (tpc[t] # "idle" /\ tpc'[t] = "idle")
                   => /\ Len(epochRets') = Len(epochRets) + 1
                      /\ IF tokens >= OneToken
                         THEN /\ epochRets'[Len(epochRets')] = TRUE
                              /\ tokens' = tokens - OneToken
                         ELSE /\ epochRets'[Len(epochRets')] = FALSE
                              /\ tokens' = tokens ]_vars

\* a bucket refilled to its burst by the time that passed has granted burst
\* calls and refused the next one
C26_Witness ==
    /\ epochFull
    /\ lastUpdate > 1
    /\ burst > 0
    /\ Len(epochRets) = burst + 1
    /\ epochRets[1]
    /\ ~epochRets[burst + 1]

\* ------------------------------------------------------------------ C27
\* C27: concurrent Allow calls on one bucket are serialized: one thread at a
\* time is past tb.mu.Lock(), and of the calls that read one instant, with T
\* whole tokens in the bucket at that instant, at most T return true.
C27_Serialized ==
    /\ Cardinality({ t \in Threads : tpc[t] \in {"refill", "check", "consume"} }) <= 1
    /\ Count(epochRets, TRUE) * OneToken <= IF epochTokens > 0 THEN epochTokens ELSE 0

\* overlapping calls found T >= 1 whole tokens: T were granted, one refused
C27_Witness ==
    /\ overlap
    /\ epochTokens >= OneToken
    /\ Count(epochRets, TRUE) = epochTokens \div OneToken
    /\ Len(epochRets) > Count(epochRets, TRUE)

ThresholdConfigChoices ==
    { [QueueSize |-> QueueSizeCfg + 1, FlushInterval |-> 1,
       CircuitThreshold |-> th, BackoffMin |-> 0, BackoffMax |-> BackoffMaxCfg,
       CircuitReset |-> 0] : th \in {0, 1, CircuitThresholdCfg} }

\* Two queues in service, built from two of these configurations.
InitPair ==
    /\ QueueInit(ThresholdConfigChoices, SubTypeChoices,
                 { CHOOSE in \in TrackInputs : ~in.recording })
    /\ IdleBreaker
    /\ IdleBucket
    /\ NoStart

SpecPair == InitPair /\ [][NextLoop]_vars

\* ------------------------------------------------------------ shutdown
\* The scheduler runs every goroutine that can take a step, every Send and
\* every Close returns, and a ready case of the consumer's select is taken.
ShutdownFairness ==
    /\ LoopFairness
    /\ WF_vars(ConsumerExit)
    /\ \A c \in Callers :
          WF_vars(ShutdownCloseChan(c) \/ ShutdownStopTick(c)
                    \/ ShutdownWait(c) \/ ShutdownCloseSub(c))

SpecShutdown == Init /\ [][Next]_vars /\ ShutdownFairness

\* ------------------------------------------------------------------ C29
\* C29: every Shutdown call eventually returns when every Send and every
\* Close returns, whatever events are buffered and whatever Track calls run
\* at the same time.
C29_ShutdownReturns ==
    \A c \in Callers : (spc[c] # "idle") ~> (spc[c] = "returned")

\* ------------------------------------------------------------------ C31
\* C31: only the consumer changes health state: the failure count, backoff
\* and nextAllowed of a subscriber change only in the step of deliver() in
\* which the Send to that subscriber returns, and in the sweep of the ticker
\* case; Track and Shutdown leave them as they are.
C31_OnlyConsumerMutates ==
    [][ \A s \in Subs :
          HealthRecord(s)' # HealthRecord(s)
            => \/ (cpc = "sending" /\ cpc' # "sending" /\ idx = s)
               \/ (cpc = "select" /\ tickReady /\ ~tickReady') ]_vars

\* ------------------------------------------------------------------ C32
\* C32: the buffer never holds more than queueSize events, and a Track call
\* on a queue whose channel is open drops its event only when the buffer
\* holds exactly queueSize events at that moment; the buffer stays as it is.
C32_BoundedBuffer ==
    /\ [](Len(events) <= queueSize)
    /\ [][ dropped' # dropped
             => /\ ~chanClosed
                /\ Len(events) = queueSize
                /\ events' = events
                /\ dropped' = dropped \cup {nextId} ]_vars

\* an event was dropped and the buffer is full, the queue still in service
C32_Witness ==
    /\ dropped # {}
    /\ Len(events) = queueSize
    /\ ~closed
    /\ accepted # <<>>

\* ------------------------------------------------------------------ C33
\* the ids of the events whose Send to subscriber s was attempted, in order
SentSeq(s) == [i \in 1..Len(sent[s]) |-> sent[s][i].id]

\* C33: the circuit threshold does not change which Sends are attempted: a
\* queue and a second one that differs in cbThreshold only, given the same
\* events, Send outcomes and instants, attempt the same Sends per subscriber
\* in the same order and hold the same health maps; and an iteration of
\* deliver() skips its subscriber exactly when a non-zero nextAllowed of that
\* subscriber lies after the instant of the iteration.
C33_ThresholdIrrelevant ==
    /\ [](/\ \A s \in Subs : twin.sent[s] = SentSeq(s)
          /\ twin.workerErrs = workerErrs
          /\ twin.nextAllowed = nextAllowed
          /\ twin.backoff = backoff)
    /\ [][ (cpc = "deliver" /\ << sent, skipped >>' # << sent, skipped >>)
             => LET next == MapGet(nextAllowed, SubID(idx), ZeroTime)
                IN  IF next # ZeroTime /\ now < next
                    THEN << cur.id, idx >> \in skipped' /\ sent' = sent
                    ELSE sent'[idx] = Append(sent[idx], cur) /\ cpc' = "sending" ]_vars

\* a Send is running to a subscriber that has reached the threshold of one
\* queue and not that of the other
C33_Witness ==
    /\ cpc = "sending"
    /\ twin.sending
    /\ MapGet(workerErrs, SubID(idx), 0) >= cbThreshold
    /\ MapGet(workerErrs, SubID(idx), 0) < twin.cbThreshold
    /\ idx \in circuitLogs
    /\ idx \notin twin.logs

\* ------------------------------------------------------------------ C34
\* C34: every Shutdown call that has returned, also one that ran at the same
\* time as another Shutdown call, returned after the consumer loop had exited
\* and every subscriber had been closed.
C34_ReturnsAfterExitAndClose ==
    \A c \in Callers :
        spc[c] = "returned"
            => cpc = "exited" /\ \A s \in Subs : closeCount[s] >= 1

\* ------------------------------------------------------------------ C35
\* C35: lastStateChange is written only when the state changes: a
\* RecordFailure or RecordSuccess call made while the breaker is Open leaves
\* lastStateChange as it is, so the Open period is not prolonged by calls
\* made meanwhile.
C35_OpenKeepsStamp ==
    [][ (state = StateOpen /\ calls' = calls + 1 /\ apc' = apc)
            => lastStateChange' = lastStateChange ]_vars

\* C36: the Open -> HalfOpen transition leaves the failure counter as it
\* was, and so, when the breaker was opened and no RecordSuccess was called
\* while it was Open, every RecordFailure that finds it HalfOpen -- the first
\* one included -- moves it back to Open.  (lastRecord.clean records exactly
\* that history; a RecordFailure call is a counted call that is no step of
\* Allow and leaves "RecordFailure" as the last recorded operation.)
C36_ProbeFailureReopens ==
    /\ [][ (state = StateOpen /\ state' = StateHalfOpen)
             => failureCount' = failureCount ]_vars
    /\ [][ (state = StateHalfOpen /\ lastRecord.clean
              /\ lastRecord'.op = "RecordFailure" /\ calls' = calls + 1
              /\ apc' = apc)
             => state' = StateOpen ]_vars

\* The case of C36: a breaker with a failure threshold above 1 was opened,
\* went HalfOpen with no RecordSuccess in between, and the RecordFailure that
\* found it HalfOpen has just reopened it.
C36_Witness ==
    /\ failureThreshold > 1
    /\ state = StateOpen
    /\ lastRecord.op = "RecordFailure"
    /\ lastRecord.from = StateHalfOpen
    /\ lastRecord.clean
    /\ failureCount > failureThreshold

\* C37: with both thresholds at least 1, every reachable state has
\* 0 <= successCount < successThreshold, has successCount > 0 only when the
\* breaker is HalfOpen, and has failureCount < failureThreshold whenever the
\* breaker is Closed.
C37_CounterBounds ==
    (failureThreshold >= 1 /\ successThreshold >= 1)
        => /\ 0 <= successCount
           /\ successCount < successThreshold
           /\ successCount > 0 => state = StateHalfOpen
           /\ state = StateClosed => failureCount < failureThreshold

\* The case of C37: a RecordSuccess has just counted a success in a HalfOpen
\* breaker without closing it, after at least three earlier calls.
C37_Witness ==
    /\ failureThreshold >= 1
    /\ successThreshold > 1
    /\ state = StateHalfOpen
    /\ successCount = successThreshold - 1
    /\ lastRecord.op = "RecordSuccess"
    /\ lastRecord.from = StateHalfOpen
    /\ calls > 3

\* ---------------------------------------------------------------- Start
\* &noopSpan{}: IsRecording() returns false
noopSpan == [kind |-> "noopSpan", recording |-> FALSE]

\* &spanImpl{span}: IsRecording() is the SDK span's
spanImpl(recording) == [kind |-> "spanImpl", recording |-> recording]

IsRecording(span) == span.recording

\* Start is called: no Allow of this call has returned yet.
StartCall(t) ==
    /\ stpc[t] \in {"idle", "returned"}
    /\ stpc' = [stpc EXCEPT ![t] = "rl"]
    /\ startRet' = [startRet EXCEPT ![t] = "none"]
    /\ rlRet' = [rlRet EXCEPT ![t] = "none"]
    /\ allowRet' = [allowRet EXCEPT ![t] = "none"]
    /\ UNCHANGED << now, queueVars, globalRateLimiter, globalCircuitBreaker,
                    state, failureCount, successCount, failureThreshold,
                    successThreshold, timeout, lastStateChange, apc, aState,
                    aLastChange, calls, failRun, succRun, lastRecord, rate,
                    burst, tokens, lastUpdate, mu, tpc, allowCalls,
                    epochTokens, epochFull, epochRets, overlap >>

\* rl != nil && !rl.Allow(): the call of rl.Allow()
StartRateLimiterAllow(t) ==
    /\ stpc[t] = "rl"
    /\ globalRateLimiter
    /\ rlRet[t] = "none"
    /\ TokenBucketAllowCall(t)

StartIgnoresRateLimiter(t) ==
    \* Start going on to the circuit breaker whatever rl.Allow() returned
    /\ stpc[t] = "rl"
    /\ globalRateLimiter => rlRet[t] # "none"
    /\ stpc' = [stpc EXCEPT ![t] = "cb"]
    /\ UNCHANGED << now, queueVars, breakerVars, bucketVars, startRet,
                    globalRateLimiter, globalCircuitBreaker >>

\* the rate limiter check is decided: rl is nil, or rl.Allow() has returned;
\* on false Start returns ctx and &noopSpan{}
StartAfterRateLimiter(t) ==
    /\ stpc[t] = "rl"
    /\ globalRateLimiter => rlRet[t] # "none"
    /\ IF globalRateLimiter /\ rlRet[t] = "false"
       THEN /\ stpc' = [stpc EXCEPT ![t] = "returned"]
            /\ startRet' = [startRet EXCEPT
                              ![t] = [ctx |-> "unchanged", span |-> noopSpan,
                                      log |-> "Rate limited"]]
       ELSE /\ stpc' = [stpc EXCEPT ![t] = "cb"]
            /\ UNCHANGED startRet
    /\ UNCHANGED << now, queueVars, breakerVars, bucketVars,
                    globalRateLimiter, globalCircuitBreaker >>

\* cb != nil && !cb.Allow(): the call of cb.Allow()
StartCircuitBreakerAllow(t) ==
    /\ stpc[t] = "cb"
    /\ globalCircuitBreaker
    /\ allowRet[t] = "none"
    /\ BreakerAllowRead(t)

\* the circuit breaker check is decided: cb is nil, or cb.Allow() has
\* returned; on false Start returns ctx and &noopSpan{}
StartAfterCircuitBreaker(t) ==
    /\ stpc[t] = "cb"
    /\ globalCircuitBreaker => allowRet[t] # "none"
    /\ IF globalCircuitBreaker /\ allowRet[t] = "false"
       THEN /\ stpc' = [stpc EXCEPT ![t] = "returned"]
            /\ startRet' = [startRet EXCEPT
                              ![t] = [ctx |-> "unchanged", span |-> noopSpan,
                                      log |-> "Circuit breaker open"]]
       ELSE /\ stpc' = [stpc EXCEPT ![t] = "tracer"]
            /\ UNCHANGED startRet
    /\ UNCHANGED << now, queueVars, breakerVars, bucketVars,
                    globalRateLimiter, globalCircuitBreaker >>

\* tracer.Start and context.WithValue: Start returns the new context and
\* &spanImpl{span}, recording or not as the SDK's sampler decides
StartTracer(t) ==
    /\ stpc[t] = "tracer"
    /\ stpc' = [stpc EXCEPT ![t] = "returned"]
    /\ \E recording \in BOOLEAN :
         startRet' = [startRet EXCEPT
                        ![t] = [ctx |-> "withSpan", span |-> spanImpl(recording),
                                log |-> "none"]]
    /\ UNCHANGED << now, queueVars, breakerVars, bucketVars,
                    globalRateLimiter, globalCircuitBreaker >>

\* Start called by two threads, with the bucket and the breaker installed
\* or not, while time passes and the breaker is told of the failures of
\* admitted work and of the successes of probes; the queue is not used.
InitStart ==
    /\ QueueInit(BurstConfigChoices,
                 { <<"*subscribers.WebhookSubscriber", "*subscribers.PostHogSubscriber">> },
                 { CHOOSE in \in TrackInputs : ~in.recording })
    /\ BreakerInit({1}, {SuccessThresholdCfg}, {TimeoutCfg})
    /\ NewTokenBucket({RateCfg}, {1})
    /\ StartInit(BOOLEAN, BOOLEAN)

NextStart ==
    \/ Tick
    \/ \E t \in Threads : StartCall(t)
    \/ \E t \in Threads : StartRateLimiterAllow(t)
    \/ \E t \in Threads : TokenBucketAllowLock(t)
    \/ \E t \in Threads : TokenBucketAllowRefill(t)
    \/ \E t \in Threads : TokenBucketAllowCheck(t)
    \/ \E t \in Threads : TokenBucketAllowConsume(t)
    \/ \E t \in Threads : StartAfterRateLimiter(t)
    \/ \E t \in Threads : StartCircuitBreakerAllow(t)
    \/ \E t \in Threads : BreakerAllowSwitch(t)
    \/ \E t \in Threads : BreakerAllowStamp(t)
    \/ \E t \in Threads : StartAfterCircuitBreaker(t)
    \/ \E t \in Threads : StartTracer(t)
    \/ (state = StateHalfOpen /\ BreakerRecordSuccess)
    \/ (state # StateOpen /\ BreakerRecordFailure)

SpecStart == InitStart /\ [][NextStart]_vars

\* thread t's Start has returned the unchanged context and a span that does
\* not record
StartDenied(t) ==
    /\ stpc[t] = "returned"
    /\ startRet[t].ctx = "unchanged"
    /\ ~IsRecording(startRet[t].span)

\* C38: Start consults the rate limiter before the circuit breaker.  Every
\* call of the breaker's Allow by a Start is made after its rate limiter
\* check passed; a Start the rate limiter denied returns the unchanged
\* context and a non-recording span without having called the breaker's
\* Allow, and none of its steps changes the breaker; a Start the rate
\* limiter allowed and the breaker denied returns the same, its token was
\* taken from the bucket when the rate limiter allowed it, and only a refill
\* ever adds tokens.
C38_AdmissionOrder ==
    /\ [](\A t \in Threads :
            /\ (stpc[t] = "rl" \/ (globalRateLimiter /\ rlRet[t] = "false"))
                 => apc[t] = "idle" /\ allowRet[t] = "none"
            /\ (stpc[t] = "returned" /\ globalRateLimiter /\ rlRet[t] = "false")
                 => StartDenied(t) /\ startRet[t].log = "Rate limited"
            /\ (stpc[t] = "returned" /\ globalCircuitBreaker /\ allowRet[t] = "false")
                 => /\ StartDenied(t)
                    /\ startRet[t].log = "Circuit breaker open"
                    /\ globalRateLimiter => rlRet[t] = "true")
    /\ [][ \A t \in Threads :
             /\ (apc[t] = "idle" /\ apc'[t] # "idle")
                  => stpc[t] = "cb" /\ (globalRateLimiter => rlRet[t] = "true")
             /\ (globalRateLimiter /\ rlRet[t] = "false" /\ stpc'[t] # "rl"
                   /\ (stpc'[t] # stpc[t] \/ startRet'[t] # startRet[t]))
                  => breakerVars' = breakerVars
             /\ (rlRet[t] # "true" /\ rlRet'[t] = "true")
                  => tokens' = tokens - OneToken
             /\ (stpc[t] = "cb" /\ stpc'[t] = "returned")
                  => tokens' = tokens ]_vars
    /\ [][ tokens' > tokens => \E u \in Threads : tpc[u] = "refill" ]_vars

\* The case of C38: the breaker is Open with its timeout over, so that an
\* Allow would move it to HalfOpen; one Start, denied by the rate limiter, has
\* returned, and so has another, allowed by the rate limiter and denied by
\* the breaker.
C38_Witness ==
    /\ globalRateLimiter
    /\ globalCircuitBreaker
    /\ state = StateOpen
    /\ now - lastStateChange > timeout
    /\ \E t \in Threads :
         /\ stpc[t] = "returned"
         /\ rlRet[t] = "false"
         /\ startRet[t] = [ctx |-> "unchanged", span |-> noopSpan,
                            log |-> "Rate limited"]
         /\ \E u \in Threads \ {t} :
              /\ stpc[u] = "returned"
              /\ rlRet[u] = "true"
              /\ allowRet[u] = "false"
              /\ startRet[u] = [ctx |-> "unchanged", span |-> noopSpan,
                                 log |-> "Circuit breaker open"]

====
